---- MODULE Spec2Model ----
(***************************************************************************)
(* FinTracker ai_backend: the two request handlers of main.py              *)
(* (POST /api/chat, POST /api/youtube-summary) and the tools they call     *)
(* (tools/youtube_processor.py, tools/statement_reader.py).                *)
(*                                                                         *)
(* A Python str is modelled as a sequence of pieces (TLA+ strings); the    *)
(* pieces are chosen so that every literal the code searches for or emits  *)
(* is a whole number of pieces.  The empty str is << >>.                   *)
(* A Python value is a record [t |-> type tag, v |-> payload].             *)
(***************************************************************************)
EXTENDS Integers, Sequences, FiniteSets, TLC

\* ------------------------------------------------------------------ bounds
MaxParams == 3      \* query parameters of a generated watch URL
MaxSegs == 2        \* transcript segments returned by a fetch
MaxTx == 2          \* elements of a generated JSON array

\* ------------------------------------------------------------ Python values
PyNone == [t |-> "none", v |-> << >>]
PyStr(s) == [t |-> "str", v |-> s]
PyNum(s) == [t |-> "num", v |-> s]
PyList(l) == [t |-> "list", v |-> l]
PyDict(pairs) == [t |-> "dict", v |-> pairs]

\* Python truth value: None, "", [], {} and 0 are false; an UploadFile
\* object defines neither __bool__ nor __len__ and is always true.
Truthy(x) ==
  CASE x.t = "none" -> FALSE
    [] x.t = "UploadFile" -> TRUE
    [] x.t = "num" -> x.v # <<"0">>
    [] OTHER -> x.v # << >>

\* s.startswith(prefix)
StartsWith(s, prefix) ==
  /\ Len(s) >= Len(prefix)
  /\ \A i \in 1..Len(prefix) : s[i] = prefix[i]

\* the literal lit occurs in s at position i
LitAt(s, i, lit) ==
  /\ i >= 1
  /\ i + Len(lit) - 1 <= Len(s)
  /\ \A j \in 1..Len(lit) : s[i + j - 1] = lit[j]

\* lit in s
Contains(s, lit) == \E i \in 1..(Len(s) + 1) : LitAt(s, i, lit)

\* ------------------------------------------------------------ URL parser
\* the character class [^&\n?#]
IdChar(c) == c \notin {"&", "\n", "?", "#"}

\* ([^&\n?#]+) matched greedily from position i: the position after the run
RECURSIVE RunEnd(_, _)
RunEnd(s, i) == IF i <= Len(s) /\ IdChar(s[i]) THEN RunEnd(s, i + 1) ELSE i

\* the capture group at position i, or << >> when the class matches nothing
Group(s, i) == SubSeq(s, i, RunEnd(s, i) - 1)

\* . matches anything but a newline: the position after the longest .* from i
RECURSIVE DotEnd(_, _)
DotEnd(s, i) == IF i <= Len(s) /\ s[i] # "\n" THEN DotEnd(s, i + 1) ELSE i

\* the four alternatives of the first pattern that are plain literals,
\* in the order the pattern lists them
WatchV == <<"youtube.com", "/", "watch", "?", "v", "=">>
ShortLink == <<"youtu.be", "/">>
Embed == <<"youtube.com", "/", "embed", "/">>
SlashV == <<"youtube.com", "/", "v", "/">>
WatchAny == <<"youtube.com", "/", "watch", "?">>
VEq == <<"v", "=">>
Shorts == <<"youtube.com", "/", "shorts", "/">>
Literals1 == <<WatchV, ShortLink, Embed, SlashV>>

\* a literal alternative followed by the group, tried at position i
LitMatch(s, i, lit) == LitAt(s, i, lit) /\ Group(s, i + Len(lit)) # << >>

\* youtube\.com\/watch\?.*v=([^&\n?#]+) at position i: .* is greedy, so the
\* engine takes the last "v=" of the line that a non-empty group follows
GreedyEnds(s, i) ==
  { e \in (i + Len(WatchAny))..DotEnd(s, i + Len(WatchAny)) :
      LitAt(s, e, VEq) /\ Group(s, e + Len(VEq)) # << >> }

Max(S) == CHOOSE x \in S : \A y \in S : y <= x
Min(S) == CHOOSE x \in S : \A y \in S : x <= y

\* the first pattern tried at position i: the alternatives in order
Pattern1At(s, i) ==
  LET lits == { k \in 1..Len(Literals1) : LitMatch(s, i, Literals1[k]) }
  IN  IF lits # {}
        THEN PyStr(Group(s, i + Len(Literals1[Min(lits)])))
      ELSE IF LitAt(s, i, WatchAny) /\ GreedyEnds(s, i) # {}
        THEN PyStr(Group(s, Max(GreedyEnds(s, i)) + Len(VEq)))
      ELSE PyNone

Pattern2At(s, i) ==
  IF LitMatch(s, i, Shorts) THEN PyStr(Group(s, i + Len(Shorts))) ELSE PyNone

\* re.search: the match at the leftmost position where the pattern matches
Search1(s) ==
  LET hits == { i \in 1..Len(s) : Pattern1At(s, i) # PyNone }
  IN  IF hits = {} THEN PyNone ELSE Pattern1At(s, Min(hits))

Search2(s) ==
  LET hits == { i \in 1..Len(s) : Pattern2At(s, i) # PyNone }
  IN  IF hits = {} THEN PyNone ELSE Pattern2At(s, Min(hits))

\* the patterns in list order, the first match's group 1
extract_video_id(youtube_url) ==
  IF Search1(youtube_url) # PyNone THEN Search1(youtube_url)
  ELSE Search2(youtube_url)

\* ------------------------------------------------------------- exceptions
HTTPException(status_code, detail) ==
  [type |-> "HTTPException", status_code |-> status_code, detail |-> detail]
OtherException(msg) ==
  [type |-> "Exception", status_code |-> 0, detail |-> msg]

StatusStr(n) ==
  CASE n = 400 -> "400" [] n = 500 -> "500" [] n = 200 -> "200" [] OTHER -> "0"

\* str(e): starlette renders an HTTPException as "<status>: <detail>", any
\* other exception as its message
Str(e) ==
  IF e.type = "HTTPException"
    THEN <<StatusStr(e.status_code), ": ">> \o e.detail
    ELSE e.detail

\* the outcome of a call: a returned value or a raised exception
Returned(val) == [ok |-> TRUE, val |-> val, exc |-> OtherException(<< >>)]
Raised(exc) == [ok |-> FALSE, val |-> PyNone, exc |-> exc]

\* ------------------------------------------------------- metadata fetcher
\* f"https://www.youtube.com/watch?v={video_id}"
WatchUrl(video_id) ==
  <<"https://", "www.", "youtube.com", "/", "watch", "?", "v", "=">> \o video_id

\* f"https://img.youtube.com/vi/{video_id}/maxresdefault.jpg"
ThumbUrl(video_id) ==
  <<"https://", "img.youtube.com", "/", "vi", "/">> \o video_id
    \o <<"/", "maxresdefault.jpg">>

\* a default record whose video URL is the short-link form
DefaultMetadata_ShortUrl(video_id) ==
  [title |-> <<"Unknown Title">>,
   thumbnail_url |-> ThumbUrl(video_id),
   video_url |-> <<"https://", "youtu.be", "/">> \o video_id,
   tags |-> << >>,
   publish_date |-> PyNone]

\* the default response set before the lookup
DefaultMetadata(video_id) ==
  [title |-> <<"Unknown Title">>,
   thumbnail_url |-> ThumbUrl(video_id),
   video_url |-> WatchUrl(video_id),
   tags |-> << >>,
   publish_date |-> PyNone]

\* the snippet keys the dict display reads, in evaluation order
SnippetKeys == <<"title", "maxres", "tags", "publishedAt">>
SnippetKeySet == {SnippetKeys[i] : i \in 1..Len(SnippetKeys)}

\* what the platform holds under each snippet key
SnippetValue(k) ==
  CASE k = "title" -> <<"Never Gonna Give You Up">>
    [] k = "maxres" -> <<"https://", "i.ytimg.com", "/", "maxres.jpg">>
    [] k = "tags" -> << <<"rick astley">> >>
    [] k = "publishedAt" -> <<"2009-10-25T06:57:20Z">>

\* a returned item: the snippet keys it carries, each with its value
Items == { [k \in S |-> SnippetValue(k)] : S \in SUBSET SnippetKeySet }

\* outcomes of build(...) and request.execute()
MetadataOutcomes ==
  { [kind |-> "build_error", has_items |-> FALSE, items |-> << >>],
    [kind |-> "http_error", has_items |-> FALSE, items |-> << >>],
    [kind |-> "response", has_items |-> FALSE, items |-> << >>],
    [kind |-> "response", has_items |-> TRUE, items |-> << >>] }
  \cup { [kind |-> "response", has_items |-> TRUE, items |-> <<it>>] :
           it \in Items }

\* a fetcher that fills each field on its own, falling back field by field
ItemMetadata_PerField(video_id, video_data) ==
  LET field(k, default) == IF k \in DOMAIN video_data THEN video_data[k] ELSE default
  IN  Returned([title |-> field("title", <<"Unknown Title">>),
                thumbnail_url |-> field("maxres", ThumbUrl(video_id)),
                tags |-> field("tags", << >>),
                publish_date |-> IF "publishedAt" \in DOMAIN video_data
                                   THEN PyStr(video_data["publishedAt"])
                                   ELSE PyNone,
                video_url |-> WatchUrl(video_id)])

\* the dict display of lines 130-136: every subscript is evaluated before
\* metadata is rebound, and the first missing key raises KeyError
ItemMetadata(video_id, video_data) ==
  LET missing == { i \in 1..Len(SnippetKeys) : SnippetKeys[i] \notin DOMAIN video_data }
  IN  IF missing = {}
        THEN Returned([title |-> video_data["title"],
                       thumbnail_url |-> video_data["maxres"],
                       tags |-> video_data["tags"],
                       publish_date |-> PyStr(video_data["publishedAt"]),
                       video_url |-> WatchUrl(video_id)])
        ELSE Raised(OtherException(<<"'", SnippetKeys[Min(missing)], "'">>))

\* lines 116-145 for an outcome of the lookup: whatever is raised inside the
\* try is caught, and both except clauses return the metadata bound so far
get_video_metadata(video_id, out) ==
  IF out.kind = "response" /\ out.has_items /\ Len(out.items) > 0
    THEN LET built == ItemMetadata(video_id, out.items[1])
         IN  IF built.ok THEN built ELSE Returned(DefaultMetadata(video_id))
    ELSE Returned(DefaultMetadata(video_id))

\* ----------------------------------------------------- transcript fetcher
Languages == {"en", "en-US", "fr"}
SegmentTexts == {<<"hello">>, <<"world">>}

RECURSIVE SeqsUpTo(_, _)
SeqsUpTo(S, n) ==
  IF n = 0 THEN {<< >>}
  ELSE LET shorter == SeqsUpTo(S, n - 1)
       IN  shorter \cup { Append(q, x) : q \in { r \in shorter : Len(r) = n - 1 },
                                         x \in S }

\* a segment carries its text; start and duration are not read
Segments == { [text |-> x] : x \in SegmentTexts }
ErrorTexts == {<<"connection reset">>}

\* transcript_list.find_transcript(codes): the first requested code that the
\* video has, else NoTranscriptFound
find_transcript(available, codes) ==
  LET hits == { i \in 1..Len(codes) : codes[i] \in available }
  IN  IF hits = {} THEN PyNone ELSE PyStr(<<codes[Min(hits)]>>)

\* lines 164-168: "en" first, the regional variants when that raises
ChooseTranscript(available) ==
  IF find_transcript(available, <<"en">>) # PyNone
    THEN find_transcript(available, <<"en">>)
    ELSE find_transcript(available, <<"en-US", "en-GB">>)

TranscriptsDisabledMsg == <<"Transcripts are disabled for this video.">>
NoTranscriptFoundMsg == <<"No transcript found for this video.">>
NoTranscriptDataMsg == <<"No transcript data available for this video.">>
\* f"Error fetching transcript: {str(e)}"
FetchErrorMsg(e) == <<"Error fetching transcript: ">> \o e

\* outcomes of YouTubeTranscriptApi.list_transcripts(video_id)
ListOutcomes ==
  { [kind |-> "TranscriptsDisabled", text |-> << >>, available |-> {}] }
  \cup { [kind |-> "Exception", text |-> e, available |-> {}] : e \in ErrorTexts }
  \cup { [kind |-> "listed", text |-> << >>, available |-> a] :
           a \in SUBSET Languages }

\* outcomes of transcript.fetch()
FetchOutcomes ==
  { [kind |-> "Exception", text |-> e, data |-> << >>] : e \in ErrorTexts }
  \cup { [kind |-> "fetched", text |-> << >>, data |-> d] :
           d \in SeqsUpTo(Segments, MaxSegs) }

\* lines 160-168, 173-178: the error message get_video_transcript returns
\* when listing or choosing fails, None when a transcript was chosen
ListError(out) ==
  CASE out.kind = "TranscriptsDisabled" -> PyStr(TranscriptsDisabledMsg)
    [] out.kind = "Exception" -> PyStr(FetchErrorMsg(out.text))
    [] OTHER -> IF ChooseTranscript(out.available) = PyNone
                  THEN PyStr(NoTranscriptFoundMsg)
                  ELSE PyNone

\* lines 170-171, 177-178: (transcript_data, error) after the fetch
get_video_transcript(out) ==
  IF out.kind = "Exception"
    THEN [transcript_data |-> << >>, error |-> PyStr(FetchErrorMsg(out.text))]
    ELSE [transcript_data |-> out.data, error |-> PyNone]

\* " ".join([segment.text for segment in transcript_data])
RECURSIVE concatenate_transcript(_)
concatenate_transcript(transcript_data) ==
  IF transcript_data = << >> THEN << >>
  ELSE IF Len(transcript_data) = 1 THEN transcript_data[1].text
  ELSE transcript_data[1].text \o <<" ">>
         \o concatenate_transcript(Tail(transcript_data))

\* ------------------------------------------------------------- summarizer
Summaries == {<<"SUMMARY">>, << >>}
SummaryFallback == <<"Failed to generate summary. Please try again later.">>

SummaryOutcomes ==
  { [kind |-> "client_error", text |-> e] : e \in ErrorTexts }
  \cup { [kind |-> "call_error", text |-> e] : e \in ErrorTexts }
  \cup { [kind |-> "ok", text |-> s] : s \in Summaries }

\* a summarizer without the try: a failed call propagates
generate_summary_Propagate(out) ==
  IF out.kind = "ok" THEN Returned(out.text) ELSE Raised(OtherException(out.text))

\* lines 206-270: the client is constructed outside the try; the call
\* returns the model's text, or the fixed string when it raises
generate_summary(out) ==
  IF out.kind = "client_error" THEN Raised(OtherException(out.text))
  ELSE IF out.kind = "ok" THEN Returned(out.text)
  ELSE Returned(SummaryFallback)

NoBody == [task_type |-> "none"]
\* the response the framework sends for an HTTPException leaving a handler
ErrorResponse(e) ==
  [status |-> e.status_code, detail |-> e.detail, body |-> NoBody]
OkResponse(body) == [status |-> 200, detail |-> << >>, body |-> body]
NoResponse == [status |-> 0, detail |-> << >>, body |-> NoBody]

\* ------------------------------------------------- YouTube summary handler
InvalidUrlPrefix == <<"Invalid YouTube URL">>
InvalidUrlMsg ==
  InvalidUrlPrefix \o <<". Please provide a valid YouTube video URL.">>
NoVideoIdMsg == InvalidUrlPrefix \o <<". Could not extract video ID.">>

\* lines 129-133: not url or ("youtube.com" not in url and "youtu.be" not in url)
UrlRejected(url) ==
  \/ url = << >>
  \/ (~Contains(url, <<"youtube.com">>) /\ ~Contains(url, <<"youtu.be">>))

\* a handler with the single except clause the chat handler has
youtube_summary_except_Wrap(e) ==
  HTTPException(500, <<"Error processing YouTube video: ">> \o Str(e))

\* lines 159-164: an HTTPException leaves unchanged, anything else becomes 500
youtube_summary_except(e) ==
  IF e.type = "HTTPException" THEN e
  ELSE HTTPException(500, <<"Error processing YouTube video: ">> \o Str(e))

\* lines 142-143: a result without success raises 400 with its error
FailureResult(error) == ErrorResponse(youtube_summary_except(HTTPException(400, error)))

\* lines 146-157: the success envelope
SuccessEnvelope(md, summary) ==
  OkResponse([response |-> <<"Successfully processed YouTube video">>,
              data |-> [title |-> md.title,
                        thumbnail_url |-> md.thumbnail_url,
                        video_url |-> md.video_url,
                        summary |-> summary,
                        tags |-> md.tags,
                        publish_date |-> md.publish_date],
              task_type |-> "youtube_summary"])

\* ------------------------------------------------------- statement reader
\* JSON text is a sequence of tokens: the six structural characters, null,
\* number literals, and string literals (a token such as transactions stands
\* for the quoted string "transactions")
JsonPunct == {"{", "}", "[", "]", ":", ","}
JsonNumbers == {"4", "1200"}
IsJsonString(tok) == tok \notin JsonPunct \cup JsonNumbers \cup {"null"}

ParseFail == [ok |-> FALSE, val |-> PyNone, next |-> 0]
ParseOk(val, next) == [ok |-> TRUE, val |-> val, next |-> next]
TokAt(toks, i, tok) == i <= Len(toks) /\ toks[i] = tok

RECURSIVE ParseValue(_, _), ParseMembers(_, _, _), ParseElements(_, _, _)
\* one JSON value starting at token i
ParseValue(toks, i) ==
  IF i > Len(toks) THEN ParseFail
  ELSE IF toks[i] = "{"
    THEN IF TokAt(toks, i + 1, "}") THEN ParseOk(PyDict(<< >>), i + 2)
         ELSE ParseMembers(toks, i + 1, << >>)
  ELSE IF toks[i] = "["
    THEN IF TokAt(toks, i + 1, "]") THEN ParseOk(PyList(<< >>), i + 2)
         ELSE ParseElements(toks, i + 1, << >>)
  ELSE IF toks[i] \in JsonPunct THEN ParseFail
  ELSE IF toks[i] = "null" THEN ParseOk(PyNone, i + 1)
  ELSE IF toks[i] \in JsonNumbers THEN ParseOk(PyNum(<<toks[i]>>), i + 1)
  ELSE ParseOk(PyStr(<<toks[i]>>), i + 1)

\* key : value pairs up to the closing brace
ParseMembers(toks, i, acc) ==
  IF ~(i + 1 <= Len(toks) /\ IsJsonString(toks[i]) /\ toks[i + 1] = ":")
    THEN ParseFail
  ELSE LET r == ParseValue(toks, i + 2)
           pairs == Append(acc, [k |-> toks[i], val |-> r.val])
       IN  IF ~r.ok THEN ParseFail
           ELSE IF TokAt(toks, r.next, ",") THEN ParseMembers(toks, r.next + 1, pairs)
           ELSE IF TokAt(toks, r.next, "}") THEN ParseOk(PyDict(pairs), r.next + 1)
           ELSE ParseFail

\* values up to the closing bracket
ParseElements(toks, i, acc) ==
  LET r == ParseValue(toks, i)
      elems == Append(acc, r.val)
  IN  IF ~r.ok THEN ParseFail
      ELSE IF TokAt(toks, r.next, ",") THEN ParseElements(toks, r.next + 1, elems)
      ELSE IF TokAt(toks, r.next, "]") THEN ParseOk(PyList(elems), r.next + 1)
      ELSE ParseFail

\* json.loads(s): a TypeError unless s is a str (bytes are not produced
\* here); a JSONDecodeError unless the whole text is one JSON value
json_loads(s) ==
  IF s.t # "str"
    THEN Raised(OtherException(
           <<"the JSON object must be str, bytes or bytearray, not ", s.t>>))
  ELSE LET r == ParseValue(s.v, 1)
       IN  IF r.ok /\ r.next = Len(s.v) + 1 THEN Returned(r.val)
           ELSE Raised(OtherException(<<"JSONDecodeError">>))

\* x[key] for a str key: the last pair of a dict with that key
Subscript(x, key) ==
  IF x.t = "dict"
    THEN LET hits == { i \in 1..Len(x.v) : x.v[i].k = key }
         IN  IF hits = {} THEN Raised(OtherException(<<"'", key, "'">>))
             ELSE Returned(x.v[Max(hits)].val)
    ELSE Raised(OtherException(<<"TypeError: ", x.t>>))

Tx1 == <<"{", "description", ":", "coffee", ",", "amount", ":", "4", "}">>
Tx2 == <<"{", "description", ":", "salary", ",", "amount", ":", "1200", "}">>

\* ",".join(elems)
RECURSIVE JoinComma(_)
JoinComma(elems) ==
  IF elems = << >> THEN << >>
  ELSE IF Len(elems) = 1 THEN elems[1]
  ELSE elems[1] \o <<",">> \o JoinComma(Tail(elems))

JsonArrays == { <<"[">> \o JoinComma(q) \o <<"]">> : q \in SeqsUpTo({Tx1, Tx2}, MaxTx) }
\* texts that are an object with a transactions key
TransactionsTexts ==
  { <<"{", "transactions", ":">> \o val \o <<"}">> :
      val \in JsonArrays \cup {Tx1, <<"null">>, <<"4">>, <<"none">>} }
\* texts the schema does not describe
OtherTexts ==
  { << >>, <<"{", "}">>, <<"[", "]">>, <<"transactions">>,
    <<"{", "transactions", ":", "[">>,
    <<"{", "transactions", ":", "[", "]", "}", "}">> }
ModelTexts == TransactionsTexts \cup OtherTexts

\* outcomes of file.read(), genai.Client(...) and generate_content(...)
StatementOutcomes ==
  { [kind |-> k, text |-> e] :
      k \in {"read_error", "client_error", "call_error"}, e \in ErrorTexts }
  \cup { [kind |-> "ok", text |-> x] : x \in ModelTexts }

\* statement_reader.py 125-135: the response text, or on a failed call the
\* dict {"transactions": []}
read_statement(out) ==
  IF out.kind = "ok" THEN PyStr(out.text)
  ELSE PyDict(<<[k |-> "transactions", val |-> PyList(<< >>)]>>)

\* --------------------------------------------------------- chat handler
\* main.py 46-55: read the upload, call the reader, decode, take the field;
\* anything raised becomes HTTPException(500)
ProcessImageError(e) == HTTPException(500, <<"Error processing image: ">> \o Str(e))

process_image(out) ==
  IF out.kind \in {"read_error", "client_error"}
    THEN Raised(ProcessImageError(OtherException(out.text)))
  ELSE LET decoded == json_loads(read_statement(out))
       IN  IF ~decoded.ok THEN Raised(ProcessImageError(decoded.exc))
           ELSE LET field == Subscript(decoded.val, "transactions")
                IN  IF ~field.ok THEN Raised(ProcessImageError(field.exc))
                    ELSE field

\* main.py 112-113: every exception raised in the body, an HTTPException
\* included, becomes HTTPException(500, str(e))
chat_except(e) == HTTPException(500, Str(e))

UnsupportedMsg == <<"Unsupported file type. Please upload an image file.">>
NoInputMsg == <<"No file or message provided">>

\* a normalisation that stores whatever was extracted
extracted_transactions_NoWrap(ocr_text) ==
  IF ocr_text.t \in {"dict", "list"} THEN ocr_text ELSE PyList(<< >>)

\* main.py 64, 82-85: a dict is wrapped, a list passes through, anything
\* else leaves the initial empty list
extracted_transactions(ocr_text) ==
  IF ocr_text.t = "dict" THEN PyList(<<ocr_text>>)
  ELSE IF ocr_text.t = "list" THEN ocr_text
  ELSE PyList(<< >>)

\* main.py 92-110: the missing-input check and the envelope
ChatTail(file, message, data) ==
  IF ~Truthy(file) /\ ~Truthy(message)
    THEN ErrorResponse(chat_except(HTTPException(400, NoInputMsg)))
    ELSE OkResponse([response |-> <<"I have updated the transactions">>,
                     data |-> data,
                     task_type |-> "add_transactions"])

ContentTypes ==
  { PyNone, PyStr(<<"image/", "png">>), PyStr(<<"image/", "jpeg">>),
    PyStr(<<"application/", "pdf">>), PyStr(<<"image">>) }
UploadFiles == { [t |-> "UploadFile", v |-> << >>, content_type |-> c] : c \in ContentTypes }
Messages == { PyNone, PyStr(<< >>), PyStr(<<"add these">>) }

\* ------------------------------------------------------- request inputs
Schemes == {<<"https://">>, <<"https://", "www.">>, <<"https://", "not">>}
Hosts == {<<"youtube.com">>, <<"youtu.be">>, <<"example.com">>}
\* query parameters: v, a parameter whose name ends in v, and another one
QueryParams == {<<"v", "=", "a">>, <<"en", "v", "=", "b">>, <<"t", "=", "b">>}

\* "&".join(params)
RECURSIVE JoinAmp(_)
JoinAmp(params) ==
  IF params = << >> THEN << >>
  ELSE IF Len(params) = 1 THEN params[1]
  ELSE params[1] \o <<"&">> \o JoinAmp(Tail(params))

WatchPaths ==
  { <<"/", "watch", "?">> \o JoinAmp(q) : q \in SeqsUpTo(QueryParams, MaxParams) }
IdPaths ==
  { pre \o <<"a">> \o suf :
      pre \in {<<"/">>, <<"/", "embed", "/">>, <<"/", "v", "/">>,
               <<"/", "shorts", "/">>},
      suf \in {<< >>, <<"?", "t", "=", "b">>} }
OtherPaths == {<<"/">>, <<"/", "?", "u", "=", "youtube.com">>}
Fragments == {<< >>, <<"#", "b">>}

Urls ==
  {<< >>} \cup
  { s \o h \o p \o f : s \in Schemes, h \in Hosts,
                       p \in WatchPaths \cup IdPaths \cup OtherPaths,
                       f \in Fragments }

\* ------------------------------------------------------------------ state
VARIABLES
  pc,               \* position of the request being served
  request,          \* the request in flight
  ext,              \* outcome of the external call that returned last
  calls,            \* calls into the external clients for this request, in
                    \* order: a lookup whose client cannot be constructed is
                    \* logged under the constructor's name
  video_id,         \* process_youtube_video: video_id
  metadata,         \* process_youtube_video: metadata
  transcript_text,  \* process_youtube_video: transcript_text
  response          \* the response sent to the client

vars == <<pc, request, ext, calls, video_id, metadata, transcript_text, response>>

NoRequest == [endpoint |-> "none", url |-> << >>, file |-> PyNone, message |-> PyNone]
NoExt == [call |-> "none"]
NoMetadata == DefaultMetadata(<< >>)

Init ==
  /\ pc = "idle"
  /\ request = NoRequest
  /\ ext = NoExt
  /\ calls = << >>
  /\ video_id = PyNone
  /\ metadata = NoMetadata
  /\ transcript_text = << >>
  /\ response = NoResponse

\* the handler replies and the request is over
Reply(r) ==
  /\ response' = r
  /\ pc' = "done"

\* POST /api/youtube-summary arrives with a JSON body {url}
ReceiveYoutube ==
  /\ pc = "idle"
  /\ \E url \in Urls :
       request' = [endpoint |-> "youtube", url |-> url, file |-> PyNone,
                   message |-> PyNone]
  /\ pc' = "youtube_summary"
  /\ UNCHANGED <<ext, calls, video_id, metadata, transcript_text, response>>

\* main.py 127-143 up to the first external call: the URL check, then
\* process_youtube_video's extract_video_id (youtube_processor.py 283-289)
youtube_summary ==
  /\ pc = "youtube_summary"
  /\ IF UrlRejected(request.url)
       THEN /\ Reply(ErrorResponse(youtube_summary_except(
                       HTTPException(400, InvalidUrlMsg))))
            /\ UNCHANGED video_id
     ELSE IF ~Truthy(extract_video_id(request.url))
       THEN /\ Reply(FailureResult(NoVideoIdMsg))
            /\ UNCHANGED video_id
     ELSE /\ video_id' = extract_video_id(request.url)
          /\ pc' = "get_video_metadata"
          /\ UNCHANGED response
  /\ UNCHANGED <<request, ext, calls, metadata, transcript_text>>

\* youtube_processor.py 292, 107-145: build the client, execute the lookup
GetVideoMetadata ==
  /\ pc = "get_video_metadata"
  /\ \E out \in MetadataOutcomes :
       /\ ext' = [call |-> "videos.list", out |-> out]
       /\ calls' = Append(calls, IF out.kind = "build_error" THEN "build"
                                 ELSE "videos.list")
       /\ LET md == get_video_metadata(video_id.v, out)
          IN  IF md.ok
                THEN /\ metadata' = md.val
                     /\ pc' = "list_transcripts"
                     /\ UNCHANGED response
                ELSE /\ Reply(ErrorResponse(youtube_summary_except(md.exc)))
                     /\ UNCHANGED metadata
  /\ UNCHANGED <<request, video_id, transcript_text>>

\* youtube_processor.py 161-168, 173-178: list the transcripts and choose one
ListTranscripts ==
  /\ pc = "list_transcripts"
  /\ calls' = Append(calls, "list_transcripts")
  /\ \E out \in ListOutcomes :
       /\ ext' = [call |-> "list_transcripts", out |-> out]
       /\ IF Truthy(ListError(out))
            THEN Reply(FailureResult(ListError(out).v))
            ELSE /\ pc' = "fetch"
                 /\ UNCHANGED response
  /\ UNCHANGED <<request, video_id, metadata, transcript_text>>

\* a fetch that is tried again when it raises
FetchTranscript_Retry ==
  /\ pc = "fetch"
  /\ calls' = Append(calls, "fetch")
  /\ \E out \in FetchOutcomes :
       /\ ext' = [call |-> "fetch", out |-> out]
       /\ LET got == get_video_transcript(out)
          IN  IF Truthy(got.error)
                THEN /\ pc' = "fetch"
                     /\ UNCHANGED <<response, transcript_text>>
              ELSE IF got.transcript_data = << >>
                THEN /\ Reply(FailureResult(NoTranscriptDataMsg))
                     /\ UNCHANGED transcript_text
              ELSE /\ transcript_text' = concatenate_transcript(got.transcript_data)
                   /\ pc' = "generate_summary"
                   /\ UNCHANGED response
  /\ UNCHANGED <<request, video_id, metadata>>

\* a fetch whose result goes to the summarizer without the emptiness test
FetchTranscript_NoEmptyCheck ==
  /\ pc = "fetch"
  /\ calls' = Append(calls, "fetch")
  /\ \E out \in FetchOutcomes :
       /\ ext' = [call |-> "fetch", out |-> out]
       /\ LET got == get_video_transcript(out)
          IN  IF Truthy(got.error)
                THEN /\ Reply(FailureResult(got.error.v))
                     /\ UNCHANGED transcript_text
              ELSE /\ transcript_text' = concatenate_transcript(got.transcript_data)
                   /\ pc' = "generate_summary"
                   /\ UNCHANGED response
  /\ UNCHANGED <<request, video_id, metadata>>

\* youtube_processor.py 170-171, 177-178, 295-308: fetch the chosen
\* transcript; an error or an empty transcript ends the request, otherwise
\* the segments are concatenated
FetchTranscript ==
  /\ pc = "fetch"
  /\ calls' = Append(calls, "fetch")
  /\ \E out \in FetchOutcomes :
       /\ ext' = [call |-> "fetch", out |-> out]
       /\ LET got == get_video_transcript(out)
          IN  IF Truthy(got.error)
                THEN /\ Reply(FailureResult(got.error.v))
                     /\ UNCHANGED transcript_text
              ELSE IF got.transcript_data = << >>
                THEN /\ Reply(FailureResult(NoTranscriptDataMsg))
                     /\ UNCHANGED transcript_text
              ELSE /\ transcript_text' = concatenate_transcript(got.transcript_data)
                   /\ pc' = "generate_summary"
                   /\ UNCHANGED response
  /\ UNCHANGED <<request, video_id, metadata>>

\* youtube_processor.py 311, 206-270 and main.py 146-164: the summarizer and
\* the reply; the client is constructed outside the try
GenerateSummary ==
  /\ pc = "generate_summary"
  /\ \E out \in SummaryOutcomes :
       /\ ext' = [call |-> "generate_content", out |-> out]
       /\ calls' = Append(calls, IF out.kind = "client_error" THEN "genai.Client"
                                 ELSE "generate_content")
       /\ LET summary == generate_summary(out)
          IN  IF summary.ok
                THEN Reply(SuccessEnvelope(metadata, summary.val))
                ELSE Reply(ErrorResponse(youtube_summary_except(summary.exc)))
  /\ UNCHANGED <<request, video_id, metadata, transcript_text>>

\* POST /api/chat arrives as a multipart form with optional file and message
ReceiveChat ==
  /\ pc = "idle"
  /\ \E file \in {PyNone} \cup UploadFiles, message \in Messages :
       request' = [endpoint |-> "chat", url |-> << >>, file |-> file,
                   message |-> message]
  /\ pc' = "chat"
  /\ UNCHANGED <<ext, calls, video_id, metadata, transcript_text, response>>

\* main.py 62-68, 86-113: the body up to the call of process_image, or to
\* the reply when there is no image to process
chat ==
  /\ pc = "chat"
  /\ IF ~Truthy(request.file)
       THEN Reply(ChatTail(request.file, request.message, PyList(<< >>)))
     ELSE IF request.file.content_type.t # "str"
       THEN Reply(ErrorResponse(chat_except(OtherException(
                    <<"'NoneType' object has no attribute 'startswith'">>))))
     ELSE IF StartsWith(request.file.content_type.v, <<"image/">>)
       THEN /\ pc' = "process_image"
            /\ UNCHANGED response
     ELSE Reply(ErrorResponse(chat_except(HTTPException(400, UnsupportedMsg))))
  /\ UNCHANGED <<request, ext, calls, video_id, metadata, transcript_text>>

\* main.py 69-110 with process_image and read_statement: the upload is
\* read, the model is called, the result decoded and the reply built
ProcessImage ==
  /\ pc = "process_image"
  /\ \E out \in StatementOutcomes :
       /\ ext' = [call |-> "read_statement", out |-> out]
       /\ calls' = IF out.kind = "read_error" THEN calls
                   ELSE Append(calls, IF out.kind = "client_error" THEN "genai.Client"
                                      ELSE "generate_content")
       /\ LET ocr_text == process_image(out)
          IN  IF ~ocr_text.ok
                THEN Reply(ErrorResponse(chat_except(ocr_text.exc)))
                ELSE Reply(ChatTail(request.file, request.message,
                                    extracted_transactions(ocr_text.val)))
  /\ UNCHANGED <<request, video_id, metadata, transcript_text>>

\* the request is over; the process holds no state across requests
Finish ==
  /\ pc = "done"
  /\ pc' = "idle"
  /\ request' = NoRequest
  /\ ext' = NoExt
  /\ calls' = << >>
  /\ video_id' = PyNone
  /\ metadata' = NoMetadata
  /\ transcript_text' = << >>
  /\ response' = NoResponse

Next ==
  \/ ReceiveChat
  \/ chat
  \/ ProcessImage
  \/ ReceiveYoutube
  \/ youtube_summary
  \/ GetVideoMetadata
  \/ ListTranscripts
  \/ FetchTranscript
  \/ GenerateSummary
  \/ Finish

Spec == Init /\ [][Next]_vars

\* ------------------------------------------------------------------ claims
ChatDone == pc = "done" /\ request.endpoint = "chat"
YoutubeDone == pc = "done" /\ request.endpoint = "youtube"

\* C1: a chat request with no file and no non-empty message is answered
\* with status 400 and the detail "No file or message provided".
C1_MissingInputIs400 ==
  (ChatDone /\ request.file = PyNone
     /\ request.message \in {PyNone, PyStr(<< >>)})
  => (response.status = 400
      /\ response.detail = <<"No file or message provided">>)

HasNonImageFile ==
  /\ request.endpoint = "chat"
  /\ request.file # PyNone
  /\ request.file.content_type # PyNone
  /\ ~(Len(request.file.content_type.v) >= 1
       /\ request.file.content_type.v[1] = "image/")

\* C2: a chat request whose file declares a content type not starting with
\* "image/" is answered with status 400 and the unsupported-file detail,
\* with or without a message, and the Statement Reader is not invoked.
C2_NonImageIs400 ==
  HasNonImageFile =>
    /\ calls = << >>
    /\ pc # "process_image"
    /\ pc = "done" =>
         (response.status = 400
          /\ response.detail
               = <<"Unsupported file type. Please upload an image file.">>)

\* the host of a URL: what stands between the scheme and the first "/"
FirstSlash(url) == Min({ i \in 1..(Len(url) + 1) : i = Len(url) + 1 \/ url[i] = "/" })
HostOf(url) == IF url = << >> THEN << >> ELSE SubSeq(url, 2, FirstSlash(url) - 1)
YoutubeHosts ==
  { <<"youtube.com">>, <<"www.", "youtube.com">>, <<"youtu.be">>,
    <<"www.", "youtu.be">> }

\* C3: a URL whose host is not a YouTube host (such as
\* https://notyoutube.com/watch?v=abc) never reaches the metadata,
\* transcript or summarizer services and is answered with 400 and a detail
\* beginning "Invalid YouTube URL".
C3_ForeignHostRejected ==
  (request.endpoint = "youtube" /\ HostOf(request.url) \notin YoutubeHosts)
  => /\ calls = << >>
     /\ pc \in {"youtube_summary", "done"}
     /\ pc = "done" =>
          (response.status = 400
           /\ Len(response.detail) >= 1
           /\ response.detail[1] = "Invalid YouTube URL")

\* transcript retrieval failed: the listing or the fetch raised, or no
\* English transcript is among the listed ones
TranscriptFailed ==
  \/ /\ ext.call = "list_transcripts"
     /\ \/ ext.out.kind \in {"TranscriptsDisabled", "Exception"}
        \/ ext.out.available \cap {"en", "en-US", "en-GB"} = {}
  \/ ext.call = "fetch" /\ ext.out.kind = "Exception"

FetcherMessage ==
  IF ext.out.kind = "TranscriptsDisabled"
    THEN <<"Transcripts are disabled for this video.">>
  ELSE IF ext.out.kind = "Exception"
    THEN <<"Error fetching transcript: ">> \o ext.out.text
  ELSE <<"No transcript found for this video.">>

\* C4: when transcript retrieval fails the YouTube handler answers 400 with
\* exactly the Transcript Fetcher's message, whatever the metadata lookup
\* gave; the status is not 500 and the response carries no metadata.
C4_TranscriptFailureIs400 ==
  (request.endpoint = "youtube" /\ TranscriptFailed)
  => /\ pc = "done"
     /\ response.status = 400
     /\ response.detail = FetcherMessage
     /\ response.body = [task_type |-> "none"]

\* transcripts disabled after a metadata lookup that succeeded
C4_Witness ==
  /\ YoutubeDone
  /\ ext.call = "list_transcripts"
  /\ ext.out.kind = "TranscriptsDisabled"
  /\ metadata.title = <<"Never Gonna Give You Up">>
  /\ response.status = 400

\* C5: when the transcript is non-empty and the summarizer returns S the
\* handler returns the success envelope with task_type "youtube_summary"
\* and data.summary = S; in every success response data.video_url is
\* "https://www.youtube.com/watch?v=" followed by the extracted identifier.
C5_SuccessEnvelope ==
  /\ (YoutubeDone /\ response.status = 200)
       => /\ response.body.task_type = "youtube_summary"
          /\ response.body.data.video_url
               = <<"https://", "www.", "youtube.com", "/", "watch", "?", "v", "=">>
                   \o extract_video_id(request.url).v
  /\ (YoutubeDone /\ ext.call = "generate_content" /\ ext.out.kind = "ok")
       => /\ response.status = 200
          /\ response.body.data.summary = ext.out.text

\* https://youtu.be/a summarised as SUMMARY after a failed metadata lookup
C5_Witness ==
  /\ YoutubeDone
  /\ request.url = <<"https://", "youtu.be", "/", "a">>
  /\ response.status = 200
  /\ response.body.data.summary = <<"SUMMARY">>
  /\ response.body.data.title = <<"Unknown Title">>
  /\ response.body.data.video_url
       = <<"https://", "www.", "youtube.com", "/", "watch", "?", "v", "=", "a">>

\* the lookup did not give an item carrying all four snippet keys
LookupFailed ==
  \/ ext.out.kind # "response"
  \/ ~ext.out.has_items
  \/ ext.out.items = << >>
  \/ DOMAIN ext.out.items[1] # {"title", "maxres", "tags", "publishedAt"}

FirstDelim(url, i) ==
  Min({ j \in i..(Len(url) + 1) : j = Len(url) + 1 \/ url[j] \in {"&", "?", "#", "\n"} })
SegmentFrom(url, i) == SubSeq(url, i, FirstDelim(url, i) - 1)
\* the positions where a query parameter starts, for a query starting at q
QueryEnd(url, q) ==
  Min({ j \in q..(Len(url) + 1) : j = Len(url) + 1 \/ url[j] \in {"#", "\n"} })
ParamStarts(url, q) ==
  { i \in q..(QueryEnd(url, q) - 1) : i = q \/ url[i - 1] = "&" }
VParamStarts(url, q) ==
  { i \in ParamStarts(url, q) : LitAt(url, i, <<"v", "=">>) }

SomeIfNonEmpty(id) == IF id = << >> THEN PyNone ELSE PyStr(id)

\* the identifier of a URL of a known shape, None for any other URL
ExpectedVideoId(url) ==
  LET h == FirstSlash(url) - 1
      after(lit) == SomeIfNonEmpty(SegmentFrom(url, h + 1 + Len(lit)))
  IN  IF h < 1 \/ h >= Len(url) THEN PyNone
      ELSE IF url[h] = "youtu.be" THEN after(<<"/">>)
      ELSE IF url[h] # "youtube.com" THEN PyNone
      ELSE IF LitAt(url, h + 1, <<"/", "embed", "/">>) THEN after(<<"/", "embed", "/">>)
      ELSE IF LitAt(url, h + 1, <<"/", "v", "/">>) THEN after(<<"/", "v", "/">>)
      ELSE IF LitAt(url, h + 1, <<"/", "shorts", "/">>) THEN after(<<"/", "shorts", "/">>)
      ELSE IF LitAt(url, h + 1, <<"/", "watch", "?">>)
                /\ VParamStarts(url, h + 4) # {}
        THEN SomeIfNonEmpty(SegmentFrom(url, Min(VParamStarts(url, h + 4)) + 2))
      ELSE PyNone

\* C7: for every URL of a known shape extract_video_id returns exactly that
\* URL's identifier: for a watch URL the value of its v parameter, also when
\* v is not the first parameter and parameters whose names end in v follow.
C7_ExtractsTheIdentifier ==
  (request.endpoint = "youtube" /\ ExpectedVideoId(request.url) # PyNone)
  => extract_video_id(request.url) = ExpectedVideoId(request.url)

\* C8: a failed summarizer call is masked: the handler answers with the
\* success envelope whose summary is the fixed fallback string and whose
\* metadata fields are those of the metadata record.
C8_SummarizerFailureMasked ==
  (request.endpoint = "youtube" /\ ext.call = "generate_content"
     /\ ext.out.kind = "call_error")
  => /\ pc = "done"
     /\ response.status = 200
     /\ response.body.task_type = "youtube_summary"
     /\ response.body.data.summary
          = <<"Failed to generate summary. Please try again later.">>
     /\ response.body.data.title = metadata.title
     /\ response.body.data.thumbnail_url = metadata.thumbnail_url
     /\ response.body.data.video_url = metadata.video_url
     /\ response.body.data.tags = metadata.tags
     /\ response.body.data.publish_date = metadata.publish_date

\* the summarizer call failed for a video whose metadata was looked up
C8_Witness ==
  /\ YoutubeDone
  /\ ext.call = "generate_content"
  /\ ext.out.kind = "call_error"
  /\ response.status = 200
  /\ response.body.data.title = <<"Never Gonna Give You Up">>

\* C9: read_statement returns, for a successful call and for a failed one,
\* a value the caller's decode step accepts; the failure fallback decodes
\* to an empty transaction list.
C9_ReaderResultDecodes ==
  (ChatDone /\ ext.call = "read_statement")
  => /\ (ext.out.kind = "ok" /\ ext.out.text \in TransactionsTexts)
          => response.status = 200
     /\ ext.out.kind = "call_error"
          => (response.status = 200 /\ response.body.data = PyList(<< >>))

\* C10: every chat request that is answered with success carries the fixed
\* response text, task_type "add_transactions" and a list as data: empty
\* without an image (and no external call), the one-element list for an
\* extracted dict, the extracted list itself, and empty for anything else.
C10_ChatEnvelope ==
  (ChatDone /\ response.status = 200)
  => /\ DOMAIN response.body = {"response", "data", "task_type"}
     /\ response.body.response = <<"I have updated the transactions">>
     /\ response.body.task_type = "add_transactions"
     /\ response.body.data.t = "list"
     /\ request.file = PyNone
          => (response.body.data.v = << >> /\ calls = << >>)
     /\ request.file # PyNone
          => LET x == process_image(ext.out).val
             IN  /\ x.t = "dict" => response.body.data.v = <<x>>
                 /\ x.t = "list" => response.body.data = x
                 /\ x.t \notin {"dict", "list"} => response.body.data.v = << >>

\* a single extracted dict came back as a one-element list
C10_Witness ==
  /\ ChatDone
  /\ response.status = 200
  /\ ext.call = "read_statement"
  /\ ext.out.text = <<"{", "transactions", ":">> \o Tx1 \o <<"}">>
  /\ response.body.data.t = "list"
  /\ Len(response.body.data.v) = 1
  /\ response.body.data.v[1].t = "dict"

\* the pipeline stage an entry of calls belongs to
StageOf(c) ==
  CASE c \in {"build", "videos.list"} -> "metadata lookup"
    [] c = "list_transcripts" -> "transcript listing"
    [] c = "fetch" -> "transcript fetch"
    [] c \in {"genai.Client", "generate_content"} -> "summarizer call"
PipelineOrder ==
  <<"metadata lookup", "transcript listing", "transcript fetch", "summarizer call">>

\* the calls of a request form a prefix of the pipeline order
CallsArePrefix ==
  /\ Len(calls) <= Len(PipelineOrder)
  /\ \A i \in 1..Len(calls) : StageOf(calls[i]) = PipelineOrder[i]

\* a request answered with one of the two invalid-URL details
AnsweredInvalid ==
  /\ pc = "done"
  /\ Len(response.detail) >= 1
  /\ response.detail[1] = "Invalid YouTube URL"

\* a URL that names neither host, or that yields no identifier
RejectedUrl(url) ==
  \/ \A i \in 1..Len(url) : url[i] \notin {"youtube.com", "youtu.be"}
  \/ extract_video_id(url) = PyNone

\* one step of a request: at most one call starts, and only when the call
\* before it has returned (ext holds its outcome); the first call starts
\* only for a URL that passed validation and extraction; the summarizer
\* starts only from a fetch that returned segments without error
CallsStep ==
  request.endpoint = "youtube" =>
    \/ calls' = calls
    \/ calls' = << >>
    \/ /\ Len(calls') = Len(calls) + 1
       /\ SubSeq(calls', 1, Len(calls)) = calls
       /\ calls # << >> => StageOf(ext.call) = StageOf(calls[Len(calls)])
       /\ calls = << >> => ~RejectedUrl(request.url)
       /\ StageOf(calls'[Len(calls')]) = "summarizer call"
            => (ext.call = "fetch" /\ ext.out.kind = "fetched")

\* C11: within one YouTube-summary request the external calls form a prefix
\* of [metadata lookup, transcript listing, transcript fetch, summarizer
\* call], each made at most once and after the previous one returned; the
\* summarizer is called only after the transcript was retrieved without
\* error, and a request rejected for its URL makes no call.
C11_CallsFormPrefix ==
  /\ [](request.endpoint = "youtube" =>
          (CallsArePrefix /\ (AnsweredInvalid => calls = << >>)))
  /\ [][CallsStep]_vars

\* a request that made all four calls and was answered with success
C11_Witness ==
  /\ YoutubeDone
  /\ calls = <<"videos.list", "list_transcripts", "fetch", "generate_content">>
  /\ response.status = 200

\* the text the summarizer is given joins at least one segment text with
\* single spaces
IsJoinedSegments(text) ==
  /\ Len(text) >= 1
  /\ Len(text) % 2 = 1
  /\ \A i \in 1..Len(text) :
       IF i % 2 = 1 THEN <<text[i]>> \in SegmentTexts
       ELSE text[i] = " "

\* C12: a transcript retrieved without error but with no segment is
\* answered with 400 "No transcript data available for this video." and the
\* summarizer is not invoked; in every success response the summarizer was
\* given the concatenation of at least one segment.
C12_EmptyTranscriptIs400 ==
  /\ (request.endpoint = "youtube" /\ ext.call = "fetch"
        /\ ext.out.kind = "fetched" /\ ext.out.data = << >>)
       => /\ pc = "done"
          /\ response.status = 400
          /\ response.detail = <<"No transcript data available for this video.">>
          /\ \A i \in 1..Len(calls) :
               calls[i] \notin {"genai.Client", "generate_content"}
  /\ (request.endpoint = "youtube"
        /\ (pc = "generate_summary" \/ (pc = "done" /\ response.status = 200)))
       => IsJoinedSegments(transcript_text)

\* an empty transcript was fetched and the request ended with 400
C12_Witness ==
  /\ YoutubeDone
  /\ ext.call = "fetch"
  /\ ext.out.kind = "fetched"
  /\ ext.out.data = << >>
  /\ response.status = 400
  /\ calls = <<"videos.list", "list_transcripts", "fetch">>

====
